---- MODULE Spec2Model ----
(***************************************************************************)
(* Connection acquisition and reconnection of the Antigravity HUD          *)
(* extension: the ConnectionManager state machine (connect, disconnect,    *)
(* refresh, retry timer, poll-result listener) together with the           *)
(* QuotaPoller it drives (setConnection, start, stop, poll) and the        *)
(* pending asynchronous work of the event loop (hunt() promises, retry     *)
(* timeouts, poll requests, the poller's interval timer).                  *)
(*                                                                         *)
(* Every handler runs to completion on the single event loop, so each      *)
(* action below is one handler (or the synchronous part of an async        *)
(* function up to its await, or the continuation after it).  A handler is  *)
(* written as a function from a world record to a world record, composed   *)
(* in the order of the statements of the source.                           *)
(***************************************************************************)
EXTENDS Integers, Sequences, FiniteSets

VARIABLES
    status,       \* ConnectionManager.status
    retryCount,   \* ConnectionManager.retryCount
    retryTimer,   \* ConnectionManager.retryTimer: Null or a timeout handle
    timeouts,     \* event loop: armed setTimeout callbacks [id, delay]
    hunts,        \* event loop: number of pending ProcessHunter.hunt() promises
    connection,   \* QuotaPoller.connection: Null or a connection
    isPolling,    \* QuotaPoller.isPolling
    timer,        \* QuotaPoller.timer: Null or an interval handle
    intervals,    \* event loop: live setInterval timers (handles)
    lastQuota,    \* QuotaPoller.lastQuota: Null or the snapshot polled from a connection
    polls,        \* event loop: poll requests in flight, per kind
    pollingInterval, \* QuotaPoller.pollingInterval, in milliseconds
    apiPath,      \* QuotaPoller.apiPath
    wired,        \* activate() has registered the status bar's listeners
    barStatus,    \* StatusBarManager.connectionStatus
    refreshed,    \* history: the extension called refresh(), no stop() since
    trace,        \* what the most recent handler did (calls, events)
    last,         \* which handler ran most recently, and from which state
    prevEmit,     \* status of the last 'statusChange' before that handler
    runK,         \* failed attempts in the current run of failures, followed for
                  \* its first MaxRun failures (NoRun: no run is followed)
    okSince,      \* a successful poll was handled, no retry scheduled since
    quiesced,     \* disconnect() ran in a backoff window, no connect()/refresh() since
    apiRun,       \* history: the run of consecutive start() or stop() calls made
                  \* on the poller by its client, and what the run did
    data,         \* parseQuotaResponse: the response body handed to it
    parsed,       \* parseQuotaResponse: what it returned
    platform,     \* ProcessHunter: os.platform()
    processPatterns, \* ProcessHunter: the lower-cased patterns
    huntCall      \* ProcessHunter: a hunt() call, where it stands and what it did

cmVars == <<status, retryCount, retryTimer, timeouts, hunts, connection, isPolling,
            timer, intervals, lastQuota, polls, pollingInterval, apiPath, wired,
            barStatus, refreshed, trace, last, prevEmit, runK, okSince, quiesced,
            apiRun>>

parserVars == <<data, parsed>>

hunterVars == <<platform, processPatterns, huntCall>>

vars == <<cmVars, parserVars, hunterVars>>

-----------------------------------------------------------------------------
(* Bounds of the model *)

\* The constructor's defaults of QuotaPoller.
DefaultPollingIntervalSeconds == 60
DefaultApiPath == "/exa.language_server_pb.LanguageServerService/GetUserStatus"

MaxRetry == 6
MaxHunts == 2
MaxPolls == 2
NumConns == 2
MaxTimers == 2
MaxRun == 3

(* Program constants *)

baseBackoffMs == 2000
maxBackoffMs == 30000
Null == 0

Conns == 1..NumConns
TimerIds == 1..MaxTimers
NoRun == 0 - 1

\* The outcomes of `await this.processHunter.hunt()`.
HuntResults ==
    {[kind |-> "conn", conn |-> c] : c \in Conns}
        \cup {[kind |-> "none", conn |-> Null], [kind |-> "throw", conn |-> Null]}

\* A poll request in flight: the connection it was issued with, and whether
\* the poller has been stopped since it was issued.
PollKinds == [conn : Conns, stale : BOOLEAN]

Min(a, b) == IF a <= b THEN a ELSE b

RECURSIVE Pow2(_)
Pow2(n) == IF n = 0 THEN 1 ELSE 2 * Pow2(n - 1)

RECURSIVE SumOver(_, _)
SumOver(f, S) ==
    IF S = {} THEN 0
    ELSE LET x == CHOOSE y \in S : TRUE IN f[x] + SumOver(f, S \ {x})

PollCount(p) == SumOver(p, PollKinds)

-----------------------------------------------------------------------------
(* The world a handler works on: the program state plus the handler's trace *)

EmptyTrace ==
    [emits |-> <<>>, stops |-> 0, starts |-> 0, huntCalls |-> 0,
     scheduled |-> <<>>, rejected |-> FALSE, huntFrom |-> "none",
     updates |-> <<>>, requested |-> <<>>, intervalMs |-> <<>>]

World ==
    [status |-> status, retryCount |-> retryCount, retryTimer |-> retryTimer,
     timeouts |-> timeouts, hunts |-> hunts, connection |-> connection,
     isPolling |-> isPolling, timer |-> timer, intervals |-> intervals,
     lastQuota |-> lastQuota, polls |-> polls, pollingInterval |-> pollingInterval,
     apiPath |-> apiPath, wired |-> wired, barStatus |-> barStatus,
     trace |-> EmptyTrace]

FreshId(used) == CHOOSE i \in TimerIds : i \notin used /\ \A j \in TimerIds : j \notin used => i <= j

-----------------------------------------------------------------------------
(* ConnectionManager: private helpers *)

\* StatusBarManager.setConnectionStatus(s), the 'statusChange' listener that
\* activate() registers.
setConnectionStatus(w, s) ==
    IF w.wired THEN [w EXCEPT !.barStatus = s] ELSE w

\* StatusBarManager.update(event), the second 'update' listener of the poller,
\* registered by activate() after the manager's own.
barUpdate(w, ev) ==
    IF w.wired
        THEN [w EXCEPT !.barStatus = IF ev = "error" THEN "error" ELSE "connected"]
        ELSE w

\* setStatus without its `this.status !== status` test.
setStatusUnguarded(w, s) ==
    setConnectionStatus([w EXCEPT !.status = s, !.trace.emits = Append(@, s)], s)

setStatus(w, s) ==
    IF w.status # s
        THEN setConnectionStatus([w EXCEPT !.status = s, !.trace.emits = Append(@, s)], s)
        ELSE w

stopRetryTimer(w) ==
    IF w.retryTimer # Null
        THEN [w EXCEPT !.timeouts = {t \in @ : t.id # w.retryTimer},
                       !.retryTimer = Null]
        ELSE w

backoffMs(n) == Min(baseBackoffMs * Pow2(n), maxBackoffMs)

\* scheduleRetry without the cancellation of the timer that is pending.
scheduleRetryNoStop(w) ==
    LET d  == backoffMs(w.retryCount)
        w1 == setStatus(w, "disconnected")
        id == FreshId({t.id : t \in w1.timeouts})
    IN  [w1 EXCEPT !.timeouts = @ \cup {[id |-> id, delay |-> d]},
                   !.retryTimer = id,
                   !.trace.scheduled = Append(@, d)]

scheduleRetry(w) ==
    LET d  == backoffMs(w.retryCount)
        w1 == setStatus(w, "disconnected")
        w2 == stopRetryTimer(w1)
        id == FreshId({t.id : t \in w2.timeouts})
    IN  [w2 EXCEPT !.timeouts = @ \cup {[id |-> id, delay |-> d]},
                   !.retryTimer = id,
                   !.trace.scheduled = Append(@, d)]

-----------------------------------------------------------------------------
(* QuotaPoller *)

\* setConnection(c) that also marks the poller inactive.
setConnectionDeactivating(w, c) == [w EXCEPT !.connection = c, !.isPolling = FALSE]

setConnection(w, c) == [w EXCEPT !.connection = c]

\* stop() without clearInterval.
pollerStopKeepTimer(w) ==
    [w EXCEPT !.isPolling = FALSE,
              !.timer = Null,
              !.trace.stops = @ + 1,
              !.polls = [k \in PollKinds |->
                            IF k.stale
                                THEN w.polls[k] + w.polls[[k EXCEPT !.stale = FALSE]]
                                ELSE 0]]

\* stop(): clearInterval, timer = null, isPolling = false.  A request that is in
\* flight is not aborted; it is marked as issued before this stop.
pollerStop(w) ==
    LET w1 == IF w.timer # Null
                  THEN [w EXCEPT !.intervals = @ \ {w.timer}, !.timer = Null]
                  ELSE w
    IN  [w1 EXCEPT !.isPolling = FALSE,
                   !.trace.stops = @ + 1,
                   !.polls = [k \in PollKinds |->
                                 IF k.stale
                                     THEN w.polls[k] + w.polls[[k EXCEPT !.stale = FALSE]]
                                     ELSE 0]]

-----------------------------------------------------------------------------
(* ConnectionManager: the poller 'update' listener *)

\* handlePollError without the 'error' notification.
handlePollErrorSilent(w) ==
    IF w.status \in {"disconnected", "connecting"}
        THEN w
        ELSE scheduleRetry(pollerStop(w))

\* handlePollError without its guard against 'disconnected' and 'connecting'.
handlePollErrorUnguarded(w) ==
    scheduleRetry(setStatus(pollerStop(w), "error"))

handlePollError(w) ==
    IF w.status \in {"disconnected", "connecting"}
        THEN w
        ELSE scheduleRetry(setStatus(pollerStop(w), "error"))

\* The listener registered in the constructor; ev is "error" for an event that
\* carries an error and "quota" for one that carries a quota and no error.
onUpdate(w, ev) ==
    IF ev = "error"
        THEN handlePollError(w)
        ELSE LET w1 == IF w.retryCount > 0 THEN [w EXCEPT !.retryCount = 0] ELSE w
             IN  IF w1.status # "connected" THEN setStatus(w1, "connected") ELSE w1

-----------------------------------------------------------------------------
(* QuotaPoller: events and polling *)

\* emit('update', event): the listeners run synchronously.
emitUpdate(w, ev) ==
    barUpdate(onUpdate([w EXCEPT !.trace.updates = Append(@, ev)], ev), ev)

\* poll() returning silently when no connection is set.
pollSilent(w) ==
    IF w.connection = Null
        THEN w
        ELSE [w EXCEPT !.polls[[conn |-> w.connection, stale |-> FALSE]] = @ + 1,
                       !.trace.requested = Append(@, w.apiPath)]

\* poll() up to its await: without a connection an error event is emitted at
\* once, otherwise one request is issued.
poll(w) ==
    IF w.connection = Null
        THEN emitUpdate(w, "error")
        ELSE [w EXCEPT !.polls[[conn |-> w.connection, stale |-> FALSE]] = @ + 1,
                       !.trace.requested = Append(@, w.apiPath)]

\* poll() after the await: the response of the request issued with connection c
\* was parsed into a snapshot (ok), or the request failed.
pollResume(w, c, ok) ==
    IF ok
        THEN emitUpdate([w EXCEPT !.lastQuota = c], "quota")
        ELSE emitUpdate(w, "error")

\* start() without its guard against a poller that is already active.
pollerStartUnguarded(w) ==
    LET w0 == [w EXCEPT !.trace.starts = @ + 1]
    IN  IF w0.connection = Null THEN w0
        ELSE LET w1 == poll([w0 EXCEPT !.isPolling = TRUE])
                 id == FreshId(w1.intervals)
             IN  [w1 EXCEPT !.intervals = @ \cup {id}, !.timer = id,
                            !.trace.intervalMs = Append(@, w1.pollingInterval)]

pollerStart(w) ==
    LET w0 == [w EXCEPT !.trace.starts = @ + 1]
    IN  IF w0.isPolling THEN w0
        ELSE IF w0.connection = Null THEN w0
        ELSE LET w1 == poll([w0 EXCEPT !.isPolling = TRUE])
                 id == FreshId(w1.intervals)
             IN  [w1 EXCEPT !.intervals = @ \cup {id}, !.timer = id,
                            !.trace.intervalMs = Append(@, w1.pollingInterval)]

\* setPollingInterval(seconds): an active poller is stopped and started again.
setPollingInterval(w, seconds) ==
    LET w1 == [w EXCEPT !.pollingInterval = seconds * 1000]
    IN  IF w1.isPolling THEN pollerStart(pollerStop(w1)) ELSE w1

\* setApiPath(path): the path is stored, nothing else.
setApiPath(w, path) == [w EXCEPT !.apiPath = path]

-----------------------------------------------------------------------------
(* ConnectionManager: public operations *)

\* connect() without its guard against parallel attempts.
connectBeginUnguarded(w) ==
    LET w1 == setStatus(w, "connecting")
        w2 == stopRetryTimer(w1)
    IN  [w2 EXCEPT !.hunts = @ + 1,
                   !.trace.huntCalls = @ + 1,
                   !.trace.huntFrom = w.status]

\* connect() up to `await this.processHunter.hunt()`.
connectBegin(w) ==
    IF w.status \in {"connecting", "connected"}
        THEN w
        ELSE LET w1 == setStatus(w, "connecting")
                 w2 == stopRetryTimer(w1)
             IN  [w2 EXCEPT !.hunts = @ + 1,
                            !.trace.huntCalls = @ + 1,
                            !.trace.huntFrom = w.status]

\* connect() after the await, without the reset of the retry counter.
connectResumeNoReset(w, r) ==
    LET w0 == [w EXCEPT !.hunts = @ - 1]
    IN  IF r.kind = "conn"
            THEN setStatus(pollerStart(setConnection(w0, r.conn)), "connected")
            ELSE scheduleRetry(w0)

\* connect() after the await, without the catch block: an exception of hunt()
\* rejects the promise of connect().
connectResumeNoCatch(w, r) ==
    LET w0 == [w EXCEPT !.hunts = @ - 1]
    IN  IF r.kind = "conn"
            THEN [setStatus(pollerStart(setConnection(w0, r.conn)), "connected")
                     EXCEPT !.retryCount = 0]
            ELSE IF r.kind = "throw"
                THEN [w0 EXCEPT !.trace.rejected = TRUE]
                ELSE scheduleRetry(w0)

\* connect() after the await: r is what hunt() resolved with (or that it threw).
connectResume(w, r) ==
    LET w0 == [w EXCEPT !.hunts = @ - 1]
    IN  IF r.kind = "conn"
            THEN LET w1 == setConnection(w0, r.conn)
                     w2 == pollerStart(w1)
                     w3 == setStatus(w2, "connected")
                 IN  [w3 EXCEPT !.retryCount = 0]
            ELSE scheduleRetry(w0)

disconnect(w) == setStatus(pollerStop(stopRetryTimer(w)), "disconnected")

\* refresh() without its disconnect().
refreshNoDisconnect(w) == connectBegin([w EXCEPT !.retryCount = 0])

\* refresh() up to the await inside the connect() it calls.
refresh(w) == connectBegin([disconnect(w) EXCEPT !.retryCount = 0])

\* The setTimeout callback armed by scheduleRetry.
retryCallback(w) == connectBegin([w EXCEPT !.retryCount = @ + 1])

\* handleConfigurationChange() of the extension: the new interval and path are
\* handed to the poller, then the manager is refreshed.  (The patterns go to
\* the hunter and the thresholds to the status bar's display.)
handleConfigurationChange(w, seconds, path) ==
    refresh(setApiPath(setPollingInterval(w, seconds), path))

-----------------------------------------------------------------------------
(* parseQuotaResponse: JSON values *)

\* A string-valued property: a string, or StrUndef when the property is absent.
StrUndef == "<undefined>"
TruthyS(s) == s # StrUndef /\ s # ""
\* JavaScript a || b on such values.
OrS(a, b) == IF TruthyS(a) THEN a ELSE b

\* A number-valued property: absent, null or a number.  Fractions and
\* percentages are kept in thousandths (755 is 0.755).
NumUndef == [k |-> "undef", n |-> 0]
NumNull == [k |-> "null", n |-> 0]
Num(n) == [k |-> "num", n |-> n]
Defined(v) == v.k # "undef"
\* Number(v) of a defined value: Number(null) is 0.
Number(v) == IF v.k = "num" THEN v.n ELSE 0
\* Math.round(Number(v) * 100) of a value kept in thousandths: the nearest
\* integer, a half rounded up.
RoundTimes100(v) == (Number(v) + 5) \div 10

\* new Date(s): the instant a time string denotes.
DateOf(s) ==
    CASE s = "2023-01-01T00:00:00Z" -> "2023-01-01T00:00:00.000Z"
      [] s = "2023-01-01T00:00:00.000Z" -> "2023-01-01T00:00:00.000Z"
      [] s = "2024-06-30T12:00:00+02:00" -> "2024-06-30T10:00:00.000Z"
      [] s = "2025-03-01T08:00:00Z" -> "2025-03-01T08:00:00.000Z"
      [] s = "2026-01-15T00:00:00Z" -> "2026-01-15T00:00:00.000Z"
      [] s = "2027-12-31T23:59:59Z" -> "2027-12-31T23:59:59.000Z"
      [] OTHER -> "Invalid Date"

\* An entry of a model list: null, a primitive (no property is defined on it)
\* or an object.  alias is modelOrAlias.model, qiFraction and qiResetTime are
\* quotaInfo.remainingFraction and quotaInfo.resetTime (absent when the nested
\* object is).
EmptyEntry ==
    [k |-> "obj",
     model_id |-> StrUndef, modelId |-> StrUndef, id |-> StrUndef, alias |-> StrUndef,
     model_name |-> StrUndef, modelName |-> StrUndef, name |-> StrUndef, label |-> StrUndef,
     remaining |-> NumUndef, left |-> NumUndef, remaining_percentage |-> NumUndef,
     remainingPercentage |-> NumUndef, remaining_fraction |-> NumUndef,
     qiFraction |-> NumUndef,
     limit |-> NumUndef, total |-> NumUndef,
     reset_at |-> StrUndef, resetAt |-> StrUndef, reset_time |-> StrUndef,
     resetTime |-> StrUndef, qiResetTime |-> StrUndef]
NullEntry == [EmptyEntry EXCEPT !.k = "null"]
PrimEntry == [EmptyEntry EXCEPT !.k = "prim"]

\* The value at a list location: absent, null, a non-empty string (iterable,
\* with a length), another truthy non-array value, or an array.
ListUndef == [k |-> "undef", items |-> <<>>]
ListNull == [k |-> "null", items |-> <<>>]
ListObj == [k |-> "obj", items |-> <<>>]
ListStr == [k |-> "str", items |-> <<PrimEntry, PrimEntry>>]
List(items) == [k |-> "list", items |-> items]
TruthyL(l) == l.k \notin {"undef", "null"}
HasLength(l) == l.k \in {"list", "str"}

\* plan_status / planStatus: absent, null, a truthy primitive (no property is
\* defined on it) or an object with available_prompt_credits /
\* availablePromptCredits.
PlanUndef == [k |-> "undef", credits |-> NumUndef]
PlanNull == [k |-> "null", credits |-> NumUndef]
PlanPrim == [k |-> "prim", credits |-> NumUndef]
Plan(c) == [k |-> "obj", credits |-> c]
TruthyP(p) == p.k \in {"prim", "obj"}

\* user_status / userStatus: configs is
\* cascade_model_config_data.client_model_configs (absent when the nested
\* object is).
StatusUndef == [k |-> "undef", configs |-> ListUndef, plan |-> PlanUndef]
StatusNull == [k |-> "null", configs |-> ListUndef, plan |-> PlanUndef]
Status(c, p) == [k |-> "obj", configs |-> c, plan |-> p]

\* The response body: null, a primitive or an object.
DataNull == [k |-> "null", user_status |-> StatusUndef, userStatus |-> StatusUndef,
             models |-> ListUndef]
DataPrim == [DataNull EXCEPT !.k = "prim"]
Data(us, cs, ms) == [k |-> "obj", user_status |-> us, userStatus |-> cs, models |-> ms]

-----------------------------------------------------------------------------
(* parseQuotaResponse *)

Placeholder ==
    [modelId |-> "unknown", modelName |-> "Data Unavailable", remaining |-> 0,
     limit |-> 100, resetAt |-> StrUndef]

\* The legacy model without the legacy cap.
CreditsDefaultLimit(c) ==
    [modelId |-> "credits", modelName |-> "Available Credits",
     remaining |-> IF c.k = "num" /\ c.n # 0 THEN c.n ELSE 0,
     limit |-> 100, resetAt |-> StrUndef]

Credits(c) ==
    [modelId |-> "credits", modelName |-> "Available Credits",
     remaining |-> IF c.k = "num" /\ c.n # 0 THEN c.n ELSE 0,
     limit |-> 1000, resetAt |-> StrUndef]

\* Step 1: the list the models are read from.
rawModels(d) ==
    IF d.k = "obj" /\ d.user_status.k = "obj" /\ TruthyL(d.user_status.configs)
        THEN d.user_status.configs
    ELSE IF d.k = "obj" /\ d.userStatus.k = "obj" /\ TruthyL(d.userStatus.configs)
        THEN d.userStatus.configs
    ELSE IF d.k = "obj" /\ TruthyL(d.models) /\ d.models.k = "list"
        THEN d.models
    ELSE List(<<>>)

normalizeId(m) ==
    LET first == OrS(m.model_id, OrS(m.modelId, m.id))
    IN  IF ~TruthyS(first) /\ TruthyS(m.alias) THEN m.alias ELSE first

normalizeName(m) ==
    OrS(m.model_name, OrS(m.modelName, OrS(m.name, OrS(m.label, normalizeId(m)))))

\* The chain with the fraction fields ahead of the percentage fields.
normalizeRemainingFractionFirst(m) ==
    IF Defined(m.remaining) THEN Number(m.remaining)
    ELSE IF Defined(m.left) THEN Number(m.left)
    ELSE IF Defined(m.remaining_fraction) THEN RoundTimes100(m.remaining_fraction)
    ELSE IF Defined(m.qiFraction) THEN RoundTimes100(m.qiFraction)
    ELSE IF Defined(m.remaining_percentage) THEN RoundTimes100(m.remaining_percentage)
    ELSE IF Defined(m.remainingPercentage) THEN RoundTimes100(m.remainingPercentage)
    ELSE 0

normalizeRemaining(m) ==
    IF Defined(m.remaining) THEN Number(m.remaining)
    ELSE IF Defined(m.left) THEN Number(m.left)
    ELSE IF Defined(m.remaining_percentage) THEN RoundTimes100(m.remaining_percentage)
    ELSE IF Defined(m.remainingPercentage) THEN RoundTimes100(m.remainingPercentage)
    ELSE IF Defined(m.remaining_fraction) THEN RoundTimes100(m.remaining_fraction)
    ELSE IF Defined(m.qiFraction) THEN RoundTimes100(m.qiFraction)
    ELSE 0

\* The chain with total ahead of limit.
normalizeLimitTotalFirst(m) ==
    IF Defined(m.total) THEN Number(m.total)
    ELSE IF Defined(m.limit) THEN Number(m.limit)
    ELSE 100

normalizeLimit(m) ==
    IF Defined(m.limit) THEN Number(m.limit)
    ELSE IF Defined(m.total) THEN Number(m.total)
    ELSE 100

normalizeResetAt(m) ==
    IF TruthyS(m.reset_at) THEN DateOf(m.reset_at)
    ELSE IF TruthyS(m.resetAt) THEN DateOf(m.resetAt)
    ELSE IF TruthyS(m.reset_time) THEN DateOf(m.reset_time)
    ELSE IF TruthyS(m.resetTime) THEN DateOf(m.resetTime)
    ELSE IF TruthyS(m.qiResetTime) THEN DateOf(m.qiResetTime)
    ELSE StrUndef

normalizeEntry(m) ==
    [modelId |-> normalizeId(m), modelName |-> normalizeName(m),
     remaining |-> normalizeRemaining(m), limit |-> normalizeLimit(m),
     resetAt |-> normalizeResetAt(m)]

\* The loop ending at the first entry without an identifier.
RECURSIVE normalizeFromBreak(_, _, _)
normalizeFromBreak(items, i, models) ==
    IF i > Len(items) THEN [models |-> models, caught |-> FALSE]
    ELSE IF items[i].k = "null" THEN [models |-> models, caught |-> TRUE]
    ELSE IF ~TruthyS(normalizeId(items[i])) THEN [models |-> models, caught |-> FALSE]
    ELSE normalizeFromBreak(items, i + 1, Append(models, normalizeEntry(items[i])))

\* The loop over rawModels from entry i on, models being what has been pushed:
\* reading a property of a null entry throws, which ends the loop.
RECURSIVE normalizeFrom(_, _, _)
normalizeFrom(items, i, models) ==
    IF i > Len(items) THEN [models |-> models, caught |-> FALSE]
    ELSE IF items[i].k = "null" THEN [models |-> models, caught |-> TRUE]
    ELSE normalizeFrom(items, i + 1,
                       IF TruthyS(normalizeId(items[i]))
                           THEN Append(models, normalizeEntry(items[i]))
                           ELSE models)

\* The end of the function: a placeholder when no model was pushed.
finishNoPlaceholder(models) ==
    [done |-> TRUE, models |-> models, threw |-> FALSE]

finish(models) ==
    [done |-> TRUE,
     models |-> IF Len(models) = 0 THEN <<Placeholder>> ELSE models,
     threw |-> FALSE]

parseQuotaResponse(d) ==
    LET raw == rawModels(d)
    IN  IF HasLength(raw) /\ Len(raw.items) = 0
               /\ d.k = "obj" /\ d.user_status.k = "obj" /\ TruthyP(d.user_status.plan)
            THEN [done |-> TRUE, models |-> <<Credits(d.user_status.plan.credits)>>,
                  threw |-> FALSE]
        ELSE IF HasLength(raw) /\ Len(raw.items) = 0
               /\ d.k = "obj" /\ d.userStatus.k = "obj" /\ TruthyP(d.userStatus.plan)
            THEN [done |-> TRUE, models |-> <<Credits(d.userStatus.plan.credits)>>,
                  threw |-> FALSE]
        ELSE IF HasLength(raw) /\ Len(raw.items) > 0
            THEN finish(normalizeFrom(raw.items, 1, <<>>).models)
        ELSE finish(<<>>)

NotParsed == [done |-> FALSE, models |-> <<>>, threw |-> FALSE]

\* No response is being parsed.
ParserIdle == data = DataNull /\ parsed = NotParsed

-----------------------------------------------------------------------------
(* ProcessHunter: strings, command lines and processes *)

\* A name or a path is a sequence of characters.
Lower(c) ==
    CASE c = "A" -> "a"
      [] c = "G" -> "g"
      [] c = "L" -> "l"
      [] c = "S" -> "s"
      [] OTHER -> c
toLowerCase(str) == [i \in 1..Len(str) |-> Lower(str[i])]
includes(str, sub) ==
    \E k \in 0..(Len(str) - Len(sub)) : \A i \in 1..Len(sub) : str[k + i] = sub[i]

\* The value captured by TOKEN_REGEX after --csrf_token: the longest run of
\* hexadecimal digits and dashes the value starts with; "" is no match.
HexPrefix(v) ==
    CASE v = "ab12-cd" -> "ab12-cd"
      [] v = "9F0e" -> "9F0e"
      [] v = "ab12xyz" -> "ab12"
      [] OTHER -> ""

\* A flag that is not on the command line.
NoFlag == ""
NoPort == 0 - 1

\* A command line: the executable's path, the values that follow --csrf_token,
\* --auth-token, --extension_server_port and --api-port.
csrfMatch(cmd) == HexPrefix(cmd.csrf)
authMatch(cmd) == cmd.auth
extPortMatch(cmd) == cmd.ext
portMatch(cmd) == cmd.api

NoConnection == [port |-> NoPort, token |-> "", pid |-> 0]

\* No hunt() has been called.
NoHuntCall ==
    [pc |-> "idle", processes |-> <<>>, i |-> 1, token |-> "", candidatePorts |-> <<>>,
     j |-> 1, result |-> NoConnection, threw |-> FALSE,
     probes |-> <<>>, lookups |-> <<>>, usedPatterns |-> {}, scans |-> <<>>]

HunterIdle ==
    /\ platform = "linux"
    /\ processPatterns = {}
    /\ huntCall = NoHuntCall

-----------------------------------------------------------------------------
(* ProcessHunter: hunt() and extractConnection() *)

\* matchesPattern without the patterns.
matchesAnything(proc, pats) == TRUE

matchesPattern(proc, pats) ==
    \E pattern \in pats :
        \/ includes(toLowerCase(proc.name), pattern)
        \/ includes(toLowerCase(proc.commandLine.path), pattern)

\* Step 1 of extractConnection: the token, "" when neither pattern matches.
findToken(cmd) ==
    IF csrfMatch(cmd) # "" THEN csrfMatch(cmd) ELSE authMatch(cmd)

\* Step 2 up to the port lookup: the ports named on the command line.
argPorts(cmd) ==
    (IF extPortMatch(cmd) # NoPort THEN <<extPortMatch(cmd)>> ELSE <<>>)
    \o (IF portMatch(cmd) # NoPort THEN <<portMatch(cmd)>> ELSE <<>>)

\* lsofPorts.forEach(p => { if (!candidatePorts.includes(p)) candidatePorts.push(p) })
RECURSIVE pushNew(_, _)
pushNew(ports, more) ==
    IF more = <<>> THEN ports
    ELSE pushNew(IF \E k \in 1..Len(ports) : ports[k] = Head(more)
                     THEN ports
                     ELSE Append(ports, Head(more)),
                 Tail(more))

RECURSIVE huntLoop(_, _, _)
RECURSIVE verifyLoop(_, _, _)

\* extractConnection returned null: the loop of hunt() goes on.
nextProcess(h, plat, pats) ==
    huntLoop([h EXCEPT !.i = @ + 1, !.token = "", !.candidatePorts = <<>>, !.j = 1],
             plat, pats)

\* The verification loop from candidate j on: ports <= 0 are skipped, a probe
\* is issued for the next other port and awaited.
verifyLoop(h, plat, pats) ==
    IF h.j > Len(h.candidatePorts) THEN nextProcess(h, plat, pats)
    ELSE IF h.candidatePorts[h.j] <= 0 THEN verifyLoop([h EXCEPT !.j = @ + 1], plat, pats)
    ELSE [h EXCEPT !.pc = "verify",
                   !.probes = Append(@, [pid |-> h.processes[h.i].pid,
                                         port |-> h.candidatePorts[h.j],
                                         token |-> h.token,
                                         state |-> "pending"])]

\* extractConnection(proc) without the test of the token.
extractConnectionAnyToken(h, plat, pats) ==
    LET proc == h.processes[h.i]
        h1   == [h EXCEPT !.token = findToken(proc.commandLine),
                          !.candidatePorts = argPorts(proc.commandLine),
                          !.j = 1]
    IN  IF plat \in {"darwin", "linux"}
            THEN [h1 EXCEPT !.pc = "lsof", !.lookups = Append(@, proc.pid)]
            ELSE verifyLoop(h1, plat, pats)

\* extractConnection(proc) up to its first await.
extractConnection(h, plat, pats) ==
    LET proc == h.processes[h.i]
        h1   == [h EXCEPT !.token = findToken(proc.commandLine)]
    IN  IF h1.token = "" THEN nextProcess(h1, plat, pats)
        ELSE LET h2 == [h1 EXCEPT !.candidatePorts = argPorts(proc.commandLine), !.j = 1]
             IN  IF plat \in {"darwin", "linux"}
                     THEN [h2 EXCEPT !.pc = "lsof", !.lookups = Append(@, proc.pid)]
                     ELSE verifyLoop(h2, plat, pats)

\* The loop of hunt() from process i on, up to the next await or the return.
huntLoop(h, plat, pats) ==
    IF h.i > Len(h.processes) THEN [h EXCEPT !.pc = "done", !.result = NoConnection]
    ELSE LET h1 == [h EXCEPT !.usedPatterns = @ \cup pats]
         IN  IF matchesPattern(h.processes[h.i], pats)
                 THEN extractConnection(h1, plat, pats)
                 ELSE huntLoop([h1 EXCEPT !.i = @ + 1], plat, pats)

\* hunt() up to `await this.scanProcesses()`.
hunt(h) == [NoHuntCall EXCEPT !.pc = "scan"]

\* scanProcesses() resolved with the processes (none when the scanner gave up:
\* the scanners catch and return []).
scanResume(h, processes, plat, pats) ==
    huntLoop([h EXCEPT !.processes = processes, !.i = 1], plat, pats)

\* The enumeration command `method` has settled with `outcome`.
scanned(h, method, outcome) ==
    [h EXCEPT !.scans = Append(@, [method |-> method, ok |-> outcome.ok])]

\* scanUnixProcesses() after `ps` settled: the parsed listing, or [] from the
\* catch.
scanUnixProcesses(h, outcome, plat, pats) ==
    scanResume(scanned(h, "ps", outcome),
               IF outcome.ok THEN outcome.processes ELSE <<>>, plat, pats)

\* scanWindowsProcesses() after `wmic` settled: the parsed listing, or the
\* PowerShell scanner is awaited from the catch.
scanWindowsProcesses(h, outcome, plat, pats) ==
    IF outcome.ok
        THEN scanResume(scanned(h, "wmic", outcome), outcome.processes, plat, pats)
        ELSE [scanned(h, "wmic", outcome) EXCEPT !.pc = "scan2"]

\* scanWindowsProcessesPowerShell() after `powershell` settled: the parsed
\* listing, or [] from the catch.
scanWindowsProcessesPowerShell(h, outcome, plat, pats) ==
    scanResume(scanned(h, "powershell", outcome),
               IF outcome.ok THEN outcome.processes ELSE <<>>, plat, pats)

\* scanProcesses(): the scanner of the platform.
scanProcesses(h, outcome, plat, pats) ==
    IF plat = "win32"
        THEN scanWindowsProcesses(h, outcome, plat, pats)
        ELSE scanUnixProcesses(h, outcome, plat, pats)

\* findPortsByPid() resolved with the ports (none when lsof failed).
lsofResume(h, lsofPorts, plat, pats) ==
    verifyLoop([h EXCEPT !.candidatePorts = pushNew(@, lsofPorts), !.j = 1], plat, pats)

\* The probe resolved, and the loop goes on after a success as well: the last
\* port that verifies is returned.
verifyResumeLastWins(h, isValid, plat, pats) ==
    LET h1 == [h EXCEPT !.probes[Len(h.probes)].state = IF isValid THEN "ok" ELSE "failed"]
        h2 == IF isValid
                  THEN [h1 EXCEPT !.result = [port |-> h.candidatePorts[h.j],
                                              token |-> h.token,
                                              pid |-> h.processes[h.i].pid]]
                  ELSE h1
        h3 == verifyLoop([h2 EXCEPT !.j = @ + 1], plat, pats)
    IN  IF h3.i = h.i \/ h2.result = NoConnection THEN h3
        ELSE [h2 EXCEPT !.pc = "done"]

\* verifyConnection(port, token) resolved with isValid.
verifyResume(h, isValid, plat, pats) ==
    LET h1 == [h EXCEPT !.probes[Len(h.probes)].state = IF isValid THEN "ok" ELSE "failed"]
    IN  IF isValid
            THEN [h1 EXCEPT !.pc = "done",
                            !.result = [port |-> h.candidatePorts[h.j],
                                        token |-> h.token,
                                        pid |-> h.processes[h.i].pid]]
            ELSE verifyLoop([h1 EXCEPT !.j = @ + 1], plat, pats)

setProcessPatterns(patterns) == {toLowerCase(pattern) : pattern \in patterns}

\* No start() or stop() call is being followed.
NoApiRun ==
    [op |-> "none", calls |-> 0, activeBefore |-> FALSE, polls |-> 0, timers |-> 0,
     emits |-> 0, changed |-> FALSE]

-----------------------------------------------------------------------------
(* The state after `new ConnectionManager(hunter, poller, logger)` *)

Constructed ==
    /\ status = "disconnected"
    /\ retryCount = 0
    /\ retryTimer = Null
    /\ timeouts = {}
    /\ hunts = 0
    /\ connection = Null
    /\ isPolling = FALSE
    /\ timer = Null
    /\ intervals = {}
    /\ lastQuota = Null
    /\ polls = [k \in PollKinds |-> 0]
    /\ barStatus = "disconnected"
    /\ refreshed = FALSE
    /\ trace = EmptyTrace
    /\ last = [op |-> "init", preStatus |-> "disconnected",
               result |-> [kind |-> "none", conn |-> Null], fresh |-> FALSE]
    /\ prevEmit = "disconnected"
    /\ runK = NoRun
    /\ okSince = FALSE
    /\ quiesced = FALSE
    /\ apiRun = NoApiRun

\* The manager and the poller on their own, the poller with the defaults of
\* its constructor.
CMInit ==
    /\ Constructed
    /\ pollingInterval = DefaultPollingIntervalSeconds * 1000
    /\ apiPath = DefaultApiPath
    /\ wired = FALSE

Init == CMInit /\ ParserIdle /\ HunterIdle

\* The counters of pending work stay within the bounds of the model.
Bounded(w) ==
    /\ w.hunts <= MaxHunts
    /\ PollCount(w.polls) <= MaxPolls
    /\ w.retryCount <= MaxRetry

NoResult == [kind |-> "none", conn |-> Null]

\* The run of consecutive calls of one poller method (start or stop) by the
\* poller's client: how many calls, whether the poller was active before the
\* first, and the requests issued, intervals created and events emitted by the
\* calls of the run.
ApiRunAfter(op, w) ==
    IF op \notin {"start", "stop"} THEN NoApiRun
    ELSE LET r == IF apiRun.op = op
                      THEN apiRun
                      ELSE [NoApiRun EXCEPT !.op = op, !.activeBefore = isPolling]
         IN  [r EXCEPT !.calls = @ + 1,
                       !.polls = @ + PollCount(w.polls) - PollCount(polls),
                       !.timers = @ + Cardinality(w.intervals \ intervals),
                       !.emits = @ + Len(w.trace.emits),
                       !.changed = @ \/ (r.calls > 0 /\
                            <<w.isPolling, w.timer, w.intervals, w.connection, w.lastQuota>>
                            # <<isPolling, timer, intervals, connection, lastQuota>>)]

\* The handler `op` has taken the world to w: the new program state, and the
\* record of what the handler did.
Commit(op, w, result, fresh) ==
    /\ Bounded(w)
    /\ status' = w.status
    /\ retryCount' = w.retryCount
    /\ retryTimer' = w.retryTimer
    /\ timeouts' = w.timeouts
    /\ hunts' = w.hunts
    /\ connection' = w.connection
    /\ isPolling' = w.isPolling
    /\ timer' = w.timer
    /\ intervals' = w.intervals
    /\ lastQuota' = w.lastQuota
    /\ polls' = w.polls
    /\ pollingInterval' = w.pollingInterval
    /\ apiPath' = w.apiPath
    /\ wired' = w.wired
    /\ barStatus' = w.barStatus
    /\ refreshed' = IF wired /\ op \in {"refresh", "configChange"} THEN TRUE
                    ELSE IF w.trace.stops > 0 THEN FALSE
                    ELSE refreshed
    /\ trace' = w.trace
    /\ last' = [op |-> op, preStatus |-> status, result |-> result, fresh |-> fresh]
    /\ prevEmit' = IF trace.emits = <<>> THEN prevEmit
                   ELSE trace.emits[Len(trace.emits)]
    /\ okSince' = IF w.trace.scheduled # <<>> THEN FALSE
                  ELSE IF op = "pollOk" THEN TRUE
                  ELSE okSince
    /\ apiRun' = ApiRunAfter(op, w)
    /\ UNCHANGED <<parserVars, hunterVars>>

\* A run of failed attempts is followed from an attempt that starts with the
\* retry counter at 0; a success, a successful poll or refresh() ends it.
RunAfterStart(k, w) ==
    IF w.trace.huntCalls > 0 /\ k = NoRun /\ w.retryCount = 0 THEN 0 ELSE k

-----------------------------------------------------------------------------
(* Actions: one per handler *)

\* connect() called from outside (the extension's activate()).
Connect ==
    LET w == connectBegin(World)
    IN  /\ Commit("connect", w, NoResult, FALSE)
        /\ runK' = RunAfterStart(runK, w)
        /\ quiesced' = FALSE

\* disconnect() called from outside (the extension's cleanup()).
Disconnect ==
    LET w == disconnect(World)
    IN  /\ Commit("disconnect", w, NoResult, FALSE)
        /\ runK' = runK
        /\ quiesced' = (quiesced \/ (timeouts # {} /\ hunts = 0))

\* refresh() called from outside (the refresh command, a configuration change).
Refresh ==
    LET w == refresh(World)
    IN  /\ Commit("refresh", w, NoResult, FALSE)
        /\ runK' = RunAfterStart(NoRun, w)
        /\ quiesced' = FALSE

\* An armed retry timeout fires.
RetryFire ==
    \E t \in timeouts :
        LET w == retryCallback([World EXCEPT !.timeouts = @ \ {t}])
        IN  /\ Commit("retryFire", w, NoResult, FALSE)
            /\ runK' = RunAfterStart(runK, w)
            /\ quiesced' = quiesced

\* A pending hunt() settles and its connect() continues.  The hunt is either the
\* one the immediately preceding handler started (fresh) or an older one.
HuntDone ==
    \E r \in HuntResults, fresh \in BOOLEAN :
        /\ IF fresh THEN trace.huntCalls > 0 ELSE hunts > trace.huntCalls
        /\ LET w == connectResume(World, r)
           IN  /\ Commit("huntDone",
                       [w EXCEPT !.trace.huntFrom = IF fresh THEN trace.huntFrom ELSE "none"],
                       r, fresh)
               /\ runK' = IF r.kind = "conn" \/ runK = NoRun
                              THEN NoRun
                              ELSE Min(runK + 1, MaxRun + 1)
               /\ quiesced' = quiesced

\* A poll request in flight completes: with a response that parses (ok), or with
\* a network error, a timeout, a non-200 status or malformed JSON.
PollDone ==
    \E k \in PollKinds, ok \in BOOLEAN :
        /\ polls[k] > 0
        /\ LET w0 == [World EXCEPT !.polls[k] = @ - 1]
               w  == pollResume(w0, k.conn, ok)
           IN  /\ Commit(IF ok THEN "pollOk" ELSE "pollErr", w, NoResult, k.stale)
               /\ runK' = IF ok THEN NoRun ELSE runK
               /\ quiesced' = quiesced

\* The poller's interval timer ticks.
PollTick ==
    /\ intervals # {}
    /\ LET w == poll(World)
       IN  /\ Commit("pollTick", w, NoResult, FALSE)
           /\ runK' = runK
           /\ quiesced' = quiesced

Next ==
    \/ Connect
    \/ Disconnect
    \/ Refresh
    \/ RetryFire
    \/ HuntDone
    \/ PollDone
    \/ PollTick

Spec == Init /\ [][Next]_vars

-----------------------------------------------------------------------------
(* The extension: manager, poller and status bar wired by activate() *)

\* The values the configuration holds.
IntervalSeconds == {DefaultPollingIntervalSeconds, 30}
ApiPaths == {DefaultApiPath, "/v2/GetUserStatus"}

\* activate() up to its connect(): the components are constructed with the
\* configured interval and path and the status bar listens to both emitters.
ExtInit ==
    /\ Constructed
    /\ \E seconds \in IntervalSeconds : pollingInterval = seconds * 1000
    /\ apiPath \in ApiPaths
    /\ wired = TRUE
    /\ ParserIdle
    /\ HunterIdle

\* The configuration changes.
ConfigChange ==
    \E seconds \in IntervalSeconds, path \in ApiPaths :
        LET w == handleConfigurationChange(World, seconds, path)
        IN  /\ Commit("configChange", w, NoResult, FALSE)
            /\ runK' = RunAfterStart(NoRun, w)
            /\ quiesced' = FALSE

ExtNext ==
    \/ Connect
    \/ Disconnect
    \/ Refresh
    \/ ConfigChange
    \/ RetryFire
    \/ HuntDone
    \/ PollDone
    \/ PollTick

SpecExtension == ExtInit /\ [][ExtNext]_vars

-----------------------------------------------------------------------------
(* The poller driven through its own interface *)

\* The client calls setConnection(), start() and stop(); requests complete and
\* the interval ticks.  The manager's listener is subscribed, the manager is
\* otherwise left alone: a retry timeout its listener arms has not fired yet.

\* Longest run of consecutive calls of one method.
MaxCalls == 2

\* setConnection(c) called by the poller's client, c a connection or null.
PollerSetConnection ==
    \E c \in Conns \cup {Null} :
        LET w == setConnection(World, c)
        IN  /\ Commit("setConnection", w, NoResult, FALSE)
            /\ runK' = runK
            /\ quiesced' = quiesced

\* start() called by the poller's client.
PollerStart ==
    /\ apiRun.op = "start" => apiRun.calls < MaxCalls
    /\ LET w == pollerStart(World)
       IN  /\ Commit("start", w, NoResult, FALSE)
           /\ runK' = runK
           /\ quiesced' = quiesced

\* stop() called by the poller's client.
PollerStop ==
    /\ apiRun.op = "stop" => apiRun.calls < MaxCalls
    /\ LET w == pollerStop(World)
       IN  /\ Commit("stop", w, NoResult, FALSE)
           /\ runK' = runK
           /\ quiesced' = quiesced

\* setPollingInterval(seconds) called by the poller's client.
PollerSetPollingInterval ==
    \E seconds \in IntervalSeconds :
        LET w == setPollingInterval(World, seconds)
        IN  /\ Commit("setPollingInterval", w, NoResult, FALSE)
            /\ runK' = runK
            /\ quiesced' = quiesced

\* setApiPath(path) called by the poller's client.
PollerSetApiPath ==
    \E path \in ApiPaths :
        LET w == setApiPath(World, path)
        IN  /\ Commit("setApiPath", w, NoResult, FALSE)
            /\ runK' = runK
            /\ quiesced' = quiesced

PollerNext ==
    \/ PollerSetConnection
    \/ PollerSetPollingInterval
    \/ PollerSetApiPath
    \/ PollerStart
    \/ PollerStop
    \/ PollTick
    \/ PollDone

SpecPoller == Init /\ [][PollerNext]_vars

-----------------------------------------------------------------------------
(* ProcessHunter: one hunter, its hunts and what the system answers *)

\* Most processes in a listing, and the highest port.
MaxProcs == 2
MaxPort == 3

Platforms == {"linux", "darwin", "win32"}
PatternSets == SUBSET {<<"a", "g">>, <<"L", "s">>}

CommandLine(path, csrf, auth, ext, api) ==
    [path |-> path, csrf |-> csrf, auth |-> auth, ext |-> ext, api |-> api]
Process(name, cmd) == [pid |-> 0, name |-> name, commandLine |-> cmd]

\* Processes of the listings: one that matches by name, in another case, with
\* both token flags and a port; a shell with the same flags; one that matches
\* and has no token; one that matches by its path and has the legacy flag only.
SmallProcesses ==
    {Process(<<"A", "g">>, CommandLine(<<"b", "i", "n">>, "ab12-cd", "legacy-T0k", NoPort, 1)),
     Process(<<"s", "h">>, CommandLine(<<"s", "h">>, "9F0e", NoFlag, NoPort, 1)),
     Process(<<"a", "g">>, CommandLine(<<"a", "g">>, NoFlag, NoFlag, NoPort, 2)),
     Process(<<"s", "h">>, CommandLine(<<"x", "L", "S">>, NoFlag, "legacy-T0k", NoPort, NoPort))}

\* Matching processes by what their command line carries.
FlagProcesses ==
    {Process(<<"a", "g">>, CommandLine(<<"a", "g">>, csrf, auth, ext, api)) :
        csrf \in {NoFlag, "ab12-cd", "ab12xyz", "xyz"}, auth \in {NoFlag, "legacy-T0k"},
        ext \in {NoPort, 0, 1}, api \in {NoPort, 1, 2}}

\* The pids of a listing are distinct.
Listing(procs) == [i \in 1..Len(procs) |-> [procs[i] EXCEPT !.pid = i]]

ScanResults ==
    {Listing(l) : l \in UNION {[1..n -> SmallProcesses] : n \in 0..MaxProcs}}
    \cup {Listing(<<proc>>) : proc \in FlagProcesses}

\* What findPortsByPid resolves with: up to two distinct listening ports.
LsofResults ==
    {<<>>} \cup {<<p>> : p \in 1..MaxPort}
    \cup {pq \in (1..MaxPort) \X (1..MaxPort) : pq[1] # pq[2]}

\* hunt() is called (by connect()); an earlier call has returned.
HunterHunt ==
    /\ huntCall.pc \in {"idle", "done"}
    /\ huntCall' = hunt(huntCall)
    /\ UNCHANGED <<cmVars, parserVars, platform, processPatterns>>

\* How an enumeration command settles: with a listing, or with a failure (the
\* tool is absent, exits with an error or overflows the buffer).
ScanOutcomes ==
    {[ok |-> TRUE, processes |-> l] : l \in ScanResults}
    \cup {[ok |-> FALSE, processes |-> <<>>]}

\* The primary enumeration command of the platform settles.
HunterScanDone ==
    /\ huntCall.pc = "scan"
    /\ \E outcome \in ScanOutcomes :
           huntCall' = scanProcesses(huntCall, outcome, platform, processPatterns)
    /\ UNCHANGED <<cmVars, parserVars, platform, processPatterns>>

\* The PowerShell enumeration, awaited after WMIC failed, settles.
HunterFallbackDone ==
    /\ huntCall.pc = "scan2"
    /\ \E outcome \in ScanOutcomes :
           huntCall' = scanWindowsProcessesPowerShell(huntCall, outcome, platform,
                                                      processPatterns)
    /\ UNCHANGED <<cmVars, parserVars, platform, processPatterns>>

\* The port lookup arrives; a failed lookup arrives as an empty one.
HunterLsofDone ==
    /\ huntCall.pc = "lsof"
    /\ \E lsofPorts \in LsofResults :
           huntCall' = lsofResume(huntCall, lsofPorts, platform, processPatterns)
    /\ UNCHANGED <<cmVars, parserVars, platform, processPatterns>>

\* The probe in flight resolves.
HunterVerifyDone ==
    /\ huntCall.pc = "verify"
    /\ \E isValid \in BOOLEAN :
           huntCall' = verifyResume(huntCall, isValid, platform, processPatterns)
    /\ UNCHANGED <<cmVars, parserVars, platform, processPatterns>>

\* setProcessPatterns() called on a configuration change.
HunterSetProcessPatterns ==
    /\ \E patterns \in PatternSets : processPatterns' = setProcessPatterns(patterns)
    /\ UNCHANGED <<cmVars, parserVars, platform, huntCall>>

HunterInit ==
    /\ CMInit
    /\ ParserIdle
    /\ platform \in Platforms
    /\ \E patterns \in PatternSets : processPatterns = setProcessPatterns(patterns)
    /\ huntCall = NoHuntCall

HunterNext ==
    \/ HunterHunt
    \/ HunterScanDone
    \/ HunterFallbackDone
    \/ HunterLsofDone
    \/ HunterVerifyDone
    \/ HunterSetProcessPatterns

SpecHunter == HunterInit /\ [][HunterNext]_vars

-----------------------------------------------------------------------------
(* parseQuotaResponse: the response bodies it is applied to *)

\* Longest model list.
MaxLen == 3

\* r with the fields of part replaced.
Merge(r, part) == [f \in DOMAIN r |-> IF f \in DOMAIN part THEN part[f] ELSE r[f]]

Named(id, n) == [EmptyEntry EXCEPT !.model_id = id, !.remaining = Num(n)]
Anonymous == [EmptyEntry EXCEPT !.name = "no id", !.remaining = Num(9)]

\* Entries differing in their id and name fields.
IdParts ==
    [model_id : {StrUndef, "", "m-snake"}, modelId : {StrUndef, "m-camel"},
     id : {StrUndef, "m-id"}, alias : {StrUndef, "m-alias"}]
NameParts ==
    [model_name : {StrUndef, "", "N snake"}, modelName : {StrUndef, "N camel"},
     name : {StrUndef, "N name"}, label : {StrUndef, "N label"}]
IdNameEntries == {Merge(Merge(EmptyEntry, i), n) : i \in IdParts, n \in NameParts}

\* Entries differing in their remaining and limit fields.
RemainingParts ==
    [remaining : {NumUndef, NumNull, Num(50), Num(0)}, left : {NumUndef, Num(7)},
     remaining_percentage : {NumUndef, Num(755)},
     remainingPercentage : {NumUndef, Num(250)},
     remaining_fraction : {NumUndef, Num(124)}, qiFraction : {NumUndef, Num(1000)}]
LimitParts == [limit : {NumUndef, Num(200), Num(0)}, total : {NumUndef, Num(300)}]
RemainingEntries ==
    {Merge(Merge([EmptyEntry EXCEPT !.model_id = "m-snake"], r), l) :
        r \in RemainingParts, l \in LimitParts}

\* Entries differing in their reset fields.
ResetParts ==
    [reset_at : {StrUndef, "", "soon", "2023-01-01T00:00:00Z"},
     resetAt : {StrUndef, "2024-06-30T12:00:00+02:00"},
     reset_time : {StrUndef, "2025-03-01T08:00:00Z"},
     resetTime : {StrUndef, "2026-01-15T00:00:00Z"},
     qiResetTime : {StrUndef, "2027-12-31T23:59:59Z"}]
ResetEntries ==
    {Merge([EmptyEntry EXCEPT !.model_id = "m-snake", !.model_name = "N snake"], r) :
        r \in ResetParts}

\* One entry of any of these kinds, at each list location.
EntryInputs ==
    {Data(StatusUndef, StatusUndef, List(<<e>>)) : e \in RemainingEntries}
    \cup {Data(Status(List(<<e>>), PlanUndef), StatusUndef, ListUndef) : e \in IdNameEntries}
    \cup {Data(StatusUndef, Status(List(<<e>>), PlanUndef), ListUndef) : e \in ResetEntries}

\* Lists of up to MaxLen entries, null and primitive entries among them, at
\* each list location.
SmallEntries == {NullEntry, PrimEntry, Named("a", 50), Named("b", 7), Anonymous}
SmallLists == UNION {[1..n -> SmallEntries] : n \in 0..MaxLen}
ListInputs ==
    {Data(Status(List(l), PlanUndef), StatusUndef, ListUndef) : l \in SmallLists}
    \cup {Data(StatusUndef, Status(List(l), PlanUndef), ListUndef) : l \in SmallLists}
    \cup {Data(StatusUndef, StatusUndef, List(l)) : l \in SmallLists}

\* Every combination of what the three list locations and the two plan
\* locations hold; the lists of a location carry an id of their own.
ListShapes(id) ==
    {ListUndef, ListNull, ListObj, ListStr, List(<<>>), List(<<Named(id, 50)>>),
     List(<<Anonymous>>)}
PlanShapes(n) == {PlanUndef, PlanNull, PlanPrim, Plan(NumUndef), Plan(NumNull),
                  Plan(Num(0)), Plan(Num(n))}
StatusShapes(id, n) ==
    {StatusUndef, StatusNull}
    \cup {Status(c, p) : c \in ListShapes(id), p \in PlanShapes(n)}
ShapeInputs ==
    {Data(us, cs, ms) : us \in StatusShapes("in-snake", 500),
                        cs \in StatusShapes("in-camel", 320),
                        ms \in ListShapes("in-flat")}

ParserInputs == {DataNull, DataPrim} \cup ShapeInputs \cup ListInputs \cup EntryInputs

\* parseQuotaResponse(data), once.
Parse ==
    /\ ~parsed.done
    /\ parsed' = parseQuotaResponse(data)
    /\ UNCHANGED <<cmVars, data, hunterVars>>

ParserInit == CMInit /\ HunterIdle /\ data \in ParserInputs /\ parsed = NotParsed

ParserNext == Parse

SpecParser == ParserInit /\ [][ParserNext]_vars


-----------------------------------------------------------------------------
(* Properties of the Connection Manager *)

\* C1: a connect() that is called while the status is 'connecting' (an earlier
\* call's hunt() is still pending) returns without starting a hunt and without
\* any other effect, while a connect() called in status 'disconnected' starts
\* exactly one: the two calls together make one hunt() call.
C1_SecondConnectStartsNoHunt ==
    /\ (last.op = "connect" /\ last.preStatus = "connecting") =>
           /\ trace.huntCalls = 0
           /\ trace.emits = <<>>
           /\ status = "connecting"
           /\ hunts >= 1
    /\ (last.op = "connect" /\ last.preStatus = "disconnected") =>
           trace.huntCalls = 1

C1_Witness ==
    /\ last.op = "connect"
    /\ last.preStatus = "connecting"
    /\ hunts = 1

\* C2: at most one ProcessHunter.hunt() call is in flight in every reachable
\* state.
C2_AtMostOneHuntInFlight == hunts <= 1

\* C3: when a connect() that started from 'disconnected' resumes, with nothing
\* in between, from a hunt() that resolved with a connection, then the poller
\* holds that connection, start() has been called once, the status is
\* 'connected', the retry counter is 0 and no retry timer is pending.
C3_ConnectSuccess ==
    (/\ last.op = "huntDone"
     /\ last.fresh
     /\ last.result.kind = "conn"
     /\ trace.huntFrom = "disconnected") =>
        /\ connection = last.result.conn
        /\ trace.starts = 1
        /\ status = "connected"
        /\ retryCount = 0
        /\ timeouts = {}

C3_Witness ==
    /\ last.op = "huntDone"
    /\ last.fresh
    /\ last.result.kind = "conn"
    /\ trace.huntFrom = "disconnected"
    /\ connection = last.result.conn
    /\ isPolling

\* C4: when the hunt() of a connect() resolves with no connection or throws,
\* then on return the status is 'disconnected', the call has not started the
\* poller, exactly one retry timer is pending and the call has not thrown.
C4_ConnectFailure ==
    (last.op = "huntDone" /\ last.result.kind # "conn") =>
        /\ status = "disconnected"
        /\ trace.starts = 0
        /\ Cardinality(timeouts) = 1
        /\ retryTimer \in {t.id : t \in timeouts}
        /\ ~trace.rejected

C4_Witness ==
    /\ last.op = "huntDone"
    /\ last.result.kind = "throw"
    /\ last.fresh
    /\ trace.huntFrom = "disconnected"
    /\ Cardinality(timeouts) = 1

\* C5: a poll error that arrives while the status is 'connected' stops the
\* poller once, notifies 'error' and then 'disconnected', leaves the status
\* 'disconnected' and exactly one retry timer pending.
C5_PollErrorWhileConnected ==
    (last.op = "pollErr" /\ last.preStatus = "connected") =>
        /\ trace.stops = 1
        /\ ~isPolling
        /\ trace.emits = <<"error", "disconnected">>
        /\ status = "disconnected"
        /\ Cardinality(timeouts) = 1

C5_Witness ==
    /\ last.op = "pollErr"
    /\ last.preStatus = "connected"
    /\ status = "disconnected"
    /\ Len(trace.scheduled) = 1

\* C6: after a disconnect() that was called with a retry timer pending and no
\* hunt in flight, and as long as neither connect() nor refresh() is called
\* from outside, no retry timer fires and no hunt() is started.
C6_DisconnectEndsRetries ==
    quiesced => (last.op # "retryFire" /\ trace.huntCalls = 0)

\* C7: in a run of consecutive failed attempts that starts with the retry
\* counter at 0, the retry scheduled after the k-th failure has the delay
\* min(30 s, 2 s * 2^(k-1)) (stated for the failures k = 1..MaxRun of a run).
C7_DelayOfKthFailure ==
    (last.op = "huntDone" /\ last.result.kind # "conn" /\ runK \in 1..MaxRun) =>
        trace.scheduled = <<Min(maxBackoffMs, baseBackoffMs * Pow2(runK - 1))>>

\* C8: after a successful poll event the retry counter is 0 and the status is
\* 'connected', and the next retry scheduled after it has the base delay.
C8_SuccessfulPollResets ==
    [][/\ last'.op = "pollOk" => (retryCount' = 0 /\ status' = "connected")
       /\ (okSince /\ trace'.scheduled # <<>>) =>
              trace'.scheduled[1] = baseBackoffMs]_vars

\* C9: refresh(), from any state, stops the poller, cancels a pending retry
\* timer, sets the retry counter to 0 and starts a new hunt().
C9_RefreshStartsAHunt ==
    last.op = "refresh" =>
        /\ trace.stops >= 1
        /\ ~isPolling
        /\ intervals = {}
        /\ timeouts = {}
        /\ retryCount = 0
        /\ trace.huntCalls = 1
        /\ status = "connecting"

C9_Witness ==
    /\ last.op = "refresh"
    /\ last.preStatus = "connected"
    /\ trace.huntCalls = 1

\* C10: every 'statusChange' event carries a status different from the one of
\* the event before it (from 'disconnected' for the first), and the status is
\* always the one of the latest event.
C10_StatusChangeEvents ==
    LET all == <<prevEmit>> \o trace.emits
    IN  /\ \A i \in 1..(Len(all) - 1) : all[i] # all[i + 1]
        /\ status = all[Len(all)]

C10_Witness ==
    /\ last.op = "disconnect"
    /\ last.preStatus = "disconnected"
    /\ trace.emits = <<>>
    /\ trace.stops = 1

-----------------------------------------------------------------------------
(* Claims about parseQuotaResponse (checked under SpecParser) *)

\* What the response holds at the three list locations and the two plan
\* locations (absent when an object on the way is).
snakeConfigs(d) ==
    IF d.k = "obj" /\ d.user_status.k = "obj" THEN d.user_status.configs ELSE ListUndef
camelConfigs(d) ==
    IF d.k = "obj" /\ d.userStatus.k = "obj" THEN d.userStatus.configs ELSE ListUndef
flatModels(d) == IF d.k = "obj" THEN d.models ELSE ListUndef
snakePlan(d) ==
    IF d.k = "obj" /\ d.user_status.k = "obj" THEN d.user_status.plan ELSE PlanUndef
camelPlan(d) ==
    IF d.k = "obj" /\ d.userStatus.k = "obj" THEN d.userStatus.plan ELSE PlanUndef

NoModelList(d) ==
    /\ snakeConfigs(d).k # "list"
    /\ camelConfigs(d).k # "list"
    /\ flatModels(d).k # "list"

IsPlaceholder(m) == m.modelId = "unknown" /\ m.remaining = 0 /\ m.limit = 100

\* C11: a response with no model list at any of the three locations and no
\* plan-status object at either plan location parses to exactly one model,
\* with modelId 'unknown', remaining 0 and limit 100.
C11_PlaceholderWithoutListOrPlan ==
    (/\ parsed.done
     /\ NoModelList(data)
     /\ snakePlan(data).k # "obj"
     /\ camelPlan(data).k # "obj") =>
        /\ Len(parsed.models) = 1
        /\ IsPlaceholder(parsed.models[1])

\* C12: whatever the response (null, a primitive, entries without an id, a
\* null entry on which normalisation throws), parseQuotaResponse returns, does
\* not throw, and returns at least one model.
C12_NeverThrowsNeverEmpty ==
    parsed.done => (~parsed.threw /\ Len(parsed.models) >= 1)

C12_Witness ==
    /\ parsed.done
    /\ flatModels(data).k = "list"
    /\ \E i \in 1..Len(flatModels(data).items) : flatModels(data).items[i].k = "null"
    /\ Len(parsed.models) = 1
    /\ IsPlaceholder(parsed.models[1])

\* The response's list holds exactly one entry, an object with an id, so that
\* the first model returned is the normalisation of that entry.
HasSoleEntry(d) ==
    /\ rawModels(d).k = "list"
    /\ Len(rawModels(d).items) = 1
    /\ rawModels(d).items[1].k = "obj"
    /\ TruthyS(normalizeId(rawModels(d).items[1]))
SoleEntry(d) == rawModels(d).items[1]

\* n is p / 10 rounded to the nearest integer, a half rounded up: p is a
\* percentage in thousandths, n is round(percentage * 100).
IsRounded(p, n) == 10 * n - 5 <= p /\ p < 10 * n + 5

\* The percentage of an entry: remaining_percentage, else remainingPercentage.
PercentageOf(e) ==
    IF Defined(e.remaining_percentage) THEN Number(e.remaining_percentage)
    ELSE Number(e.remainingPercentage)

\* C13 as stated: an entry with remaining_percentage or remainingPercentage and
\* no remaining field normalises to remaining = round(percentage * 100),
\* whatever else (left, remaining_fraction) it carries.
C13_PercentageWithoutRemaining ==
    (/\ parsed.done
     /\ HasSoleEntry(data)
     /\ Defined(SoleEntry(data).remaining_percentage)
            \/ Defined(SoleEntry(data).remainingPercentage)
     /\ ~Defined(SoleEntry(data).remaining)) =>
        IsRounded(PercentageOf(SoleEntry(data)), parsed.models[1].remaining)

\* C13 amended: an entry with remaining_percentage or remainingPercentage and
\* neither a remaining nor a left field normalises to
\* remaining = round(percentage * 100), whatever fraction fields it carries.
C13_PercentageWithoutRemainingOrLeft ==
    (/\ parsed.done
     /\ HasSoleEntry(data)
     /\ Defined(SoleEntry(data).remaining_percentage)
            \/ Defined(SoleEntry(data).remainingPercentage)
     /\ ~Defined(SoleEntry(data).remaining)
     /\ ~Defined(SoleEntry(data).left)) =>
        IsRounded(PercentageOf(SoleEntry(data)), parsed.models[1].remaining)

C13_Witness ==
    /\ parsed.done
    /\ HasSoleEntry(data)
    /\ SoleEntry(data).remaining_percentage = Num(755)
    /\ Defined(SoleEntry(data).remaining_fraction)
    /\ ~Defined(SoleEntry(data).remaining)
    /\ ~Defined(SoleEntry(data).left)
    /\ parsed.models[1].remaining = 76

\* The legacy shape: a plan-status object with numeric credits at exactly one
\* of the two plan locations, nothing at the two nested list locations and no
\* flat models array.
IsLegacyShape(d, p) ==
    /\ p.k = "obj"
    /\ p.credits.k = "num"
    /\ \/ snakePlan(d) = p /\ camelPlan(d).k = "undef"
       \/ camelPlan(d) = p /\ snakePlan(d).k = "undef"
    /\ ~TruthyL(snakeConfigs(d))
    /\ ~TruthyL(camelConfigs(d))
    /\ flatModels(d).k # "list"

\* C14: a response of the legacy shape, in either casing, with credits N and
\* no model list parses to exactly one model, with modelId 'credits',
\* remaining N and limit 1000.
C14_LegacyCredits ==
    \A p \in {snakePlan(data), camelPlan(data)} :
        (parsed.done /\ IsLegacyShape(data, p)) =>
            /\ Len(parsed.models) = 1
            /\ parsed.models[1].modelId = "credits"
            /\ parsed.models[1].remaining = p.credits.n
            /\ parsed.models[1].limit = 1000

C14_Witness ==
    /\ parsed.done
    /\ IsLegacyShape(data, camelPlan(data))
    /\ camelPlan(data).credits.n = 320
    /\ parsed.models[1].modelId = "credits"
    /\ parsed.models[1].remaining = 320

\* C15: in the normalisation of an entry a numeric remaining wins over left,
\* the percentages and the fractions; a numeric limit wins over total, total
\* is used without a limit, and the limit is 100 with neither; a non-empty
\* model_id, model_name and reset_at are carried through (reset_at as the
\* instant it denotes).
C15_FallbackChains ==
    (parsed.done /\ HasSoleEntry(data)) =>
        LET e == SoleEntry(data)
            m == parsed.models[1]
        IN  /\ e.remaining.k = "num" => m.remaining = e.remaining.n
            /\ e.limit.k = "num" => m.limit = e.limit.n
            /\ (~Defined(e.limit) /\ e.total.k = "num") => m.limit = e.total.n
            /\ (~Defined(e.limit) /\ ~Defined(e.total)) => m.limit = 100
            /\ TruthyS(e.model_id) => m.modelId = e.model_id
            /\ TruthyS(e.model_name) => m.modelName = e.model_name
            /\ TruthyS(e.reset_at) => m.resetAt = DateOf(e.reset_at)

C15_Witness ==
    /\ parsed.done
    /\ HasSoleEntry(data)
    /\ SoleEntry(data).remaining = Num(50)
    /\ Defined(SoleEntry(data).left)
    /\ Defined(SoleEntry(data).remaining_percentage)
    /\ SoleEntry(data).limit = Num(200)
    /\ Defined(SoleEntry(data).total)
    /\ parsed.models[1].remaining = 50
    /\ parsed.models[1].limit = 200

-----------------------------------------------------------------------------
(* Claims about QuotaPoller.start() and stop() (checked under SpecPoller) *)

\* C16: after any number of consecutive start() calls, with a connection set,
\* on a poller that was inactive, exactly one request has been issued and
\* exactly one interval created, and the poller is active with that interval;
\* on a poller that was active, nothing has been issued or created; with no
\* connection set, an inactive poller is still inactive, has no interval, and
\* no request was issued and no event emitted.
C16_StartIdempotent ==
    (apiRun.op = "start" /\ apiRun.calls >= 1) =>
        /\ (connection # Null /\ ~apiRun.activeBefore) =>
               /\ apiRun.polls = 1
               /\ apiRun.timers = 1
               /\ isPolling
               /\ timer # Null
               /\ intervals = {timer}
        /\ apiRun.activeBefore =>
               /\ apiRun.polls = 0
               /\ apiRun.timers = 0
               /\ isPolling
        /\ (connection = Null /\ ~apiRun.activeBefore) =>
               /\ ~isPolling
               /\ timer = Null
               /\ intervals = {}
               /\ apiRun.polls = 0
               /\ apiRun.timers = 0
               /\ apiRun.emits = 0
        /\ ~apiRun.changed

C16_Witness ==
    /\ apiRun.op = "start"
    /\ apiRun.calls = MaxCalls
    /\ ~apiRun.activeBefore
    /\ connection # Null
    /\ apiRun.polls = 1
    /\ isPolling

\* C17: a step that is a stop() call leaves the poller inactive with no
\* interval; a stop() on an inactive poller changes nothing; and an interval
\* tick happens only while the poller is active, so that between a stop() and
\* the next start() no tick starts a poll.
C17_StopIdempotent ==
    [][/\ last'.op = "stop" =>
            /\ ~isPolling'
            /\ timer' = Null
            /\ intervals' = {}
            /\ ~apiRun'.changed
            /\ ~isPolling =>
                   <<isPolling', timer', intervals', connection', lastQuota', polls'>>
                   = <<isPolling, timer, intervals, connection, lastQuota, polls>>
       /\ last'.op = "pollTick" => isPolling]_vars

C17_Witness ==
    /\ apiRun.op = "stop"
    /\ apiRun.calls = MaxCalls
    /\ apiRun.activeBefore
    /\ ~isPolling
    /\ intervals = {}
    /\ PollCount(polls) > 0

-----------------------------------------------------------------------------
(* Claims about ProcessHunter (checked under SpecHunter) *)

\* The probes of this hunt, and the port lookups, for the process pid.
ProbesOf(pid) == {k \in 1..Len(huntCall.probes) : huntCall.probes[k].pid = pid}
LookedUp(pid) == \E k \in 1..Len(huntCall.lookups) : huntCall.lookups[k] = pid

\* C18: for a process whose command line matches neither TOKEN_REGEX nor
\* AUTH_TOKEN_REGEX no port lookup is made and no probe is issued, and it is
\* not the process of the connection returned; for a process whose command line
\* matches both, every probe and the connection returned carry the value
\* captured by TOKEN_REGEX.
C18_NoTokenNoProbe ==
    \A i \in 1..Len(huntCall.processes) :
        LET proc == huntCall.processes[i]
        IN  /\ (csrfMatch(proc.commandLine) = "" /\ authMatch(proc.commandLine) = "") =>
                   /\ ~LookedUp(proc.pid)
                   /\ ProbesOf(proc.pid) = {}
                   /\ huntCall.result.pid # proc.pid
            /\ (csrfMatch(proc.commandLine) # "" /\ authMatch(proc.commandLine) # "") =>
                   /\ \A k \in ProbesOf(proc.pid) :
                          huntCall.probes[k].token = csrfMatch(proc.commandLine)
                   /\ huntCall.result.pid = proc.pid =>
                          huntCall.result.token = csrfMatch(proc.commandLine)

C18_Witness ==
    /\ Len(huntCall.processes) = 2
    /\ huntCall.i = 2
    /\ <<"a", "g">> \in huntCall.usedPatterns
    /\ huntCall.processes[1].name = <<"a", "g">>
    /\ csrfMatch(huntCall.processes[1].commandLine) = ""
    /\ authMatch(huntCall.processes[1].commandLine) = ""
    /\ csrfMatch(huntCall.processes[2].commandLine) # ""
    /\ authMatch(huntCall.processes[2].commandLine) # ""
    /\ huntCall.pc = "done"
    /\ huntCall.result.pid = 2
    /\ huntCall.result.token = "ab12-cd"

\* The candidate ports a probe is issued for: those above 0, in order.
IsPositive(port) == port > 0
ProbedPorts(ports) == SelectSeq(ports, IsPositive)

\* C19: at most one probe is unresolved, and it is the last one issued; every
\* probe before the last one has failed; the probes of the process being
\* examined are for the first of its candidate ports, in candidate order; a
\* connection returned has the port of the last probe, which succeeded; and
\* when no probe succeeded the hunt returns none.
C19_SequentialFirstSuccess ==
    LET probes == huntCall.probes
        n == Len(probes)
    IN  /\ \A k \in 1..n :
               /\ probes[k].state = "pending" => (k = n /\ huntCall.pc = "verify")
               /\ k < n => probes[k].state = "failed"
        /\ (huntCall.pc = "verify" \/ huntCall.result # NoConnection) =>
               LET pid == huntCall.processes[huntCall.i].pid
                   m == Cardinality(ProbesOf(pid))
                   ports == ProbedPorts(huntCall.candidatePorts)
               IN  /\ m >= 1
                   /\ m <= Len(ports)
                   /\ \A k \in 1..m :
                          /\ probes[n - m + k].pid = pid
                          /\ probes[n - m + k].port = ports[k]
        /\ (huntCall.pc = "done" /\ huntCall.result # NoConnection) =>
               /\ n >= 1
               /\ probes[n].state = "ok"
               /\ huntCall.result.port = probes[n].port
               /\ huntCall.result.pid = probes[n].pid
        /\ (huntCall.pc = "done" /\ \A k \in 1..n : probes[k].state = "failed") =>
               huntCall.result = NoConnection

C19_Witness ==
    /\ huntCall.pc = "done"
    /\ huntCall.result # NoConnection
    /\ Len(huntCall.probes) = 2
    /\ huntCall.probes[1].state = "failed"
    /\ huntCall.probes[1].pid = huntCall.result.pid
    /\ huntCall.probes[2].state = "ok"
    /\ Len(ProbedPorts(huntCall.candidatePorts)) > 2

\* C20: a connection returned by hunt() has the pid of a process of the listing
\* whose lower-cased name or command line contains a pattern configured during
\* the hunt, a token captured from that process's command line, and a port
\* above 0 for which a probe of this hunt with that token succeeded; and hunt()
\* does not throw.
C20_ReturnedConnectionVerified ==
    /\ ~huntCall.threw
    /\ (huntCall.pc = "done" /\ huntCall.result # NoConnection) =>
           \E i \in 1..Len(huntCall.processes) :
               LET proc == huntCall.processes[i]
               IN  /\ proc.pid = huntCall.result.pid
                   /\ \E pattern \in huntCall.usedPatterns :
                          \/ includes(toLowerCase(proc.name), pattern)
                          \/ includes(toLowerCase(proc.commandLine.path), pattern)
                   /\ huntCall.result.token # ""
                   /\ huntCall.result.token
                          \in {csrfMatch(proc.commandLine), authMatch(proc.commandLine)}
                   /\ huntCall.result.port > 0
                   /\ \E k \in ProbesOf(proc.pid) :
                          /\ huntCall.probes[k].port = huntCall.result.port
                          /\ huntCall.probes[k].token = huntCall.result.token
                          /\ huntCall.probes[k].state = "ok"

C20_Witness ==
    /\ huntCall.pc = "done"
    /\ huntCall.result.pid = 2
    /\ huntCall.processes[1].name = <<"s", "h">>
    /\ csrfMatch(huntCall.processes[1].commandLine) # ""
    /\ huntCall.processes[2].name = <<"s", "h">>
    /\ huntCall.result.token = "legacy-T0k"
    /\ huntCall.result.port > 0

-----------------------------------------------------------------------------
(* Claims about the retry timer and the retry counter (checked under Spec) *)

\* C21: a step in which a poll fails while the status is 'disconnected' or
\* 'connecting' leaves the status, the retry counter and the retry timer as
\* they were, does not stop the poller and emits no 'statusChange'.
C21_PollErrorIgnored ==
    [][(last'.op = "pollErr" /\ status \in {"disconnected", "connecting"}) =>
           /\ status' = status
           /\ retryCount' = retryCount
           /\ retryTimer' = retryTimer
           /\ timeouts' = timeouts
           /\ isPolling' = isPolling
           /\ timer' = timer
           /\ intervals' = intervals
           /\ trace'.stops = 0
           /\ trace'.emits = <<>>
           /\ trace'.scheduled = <<>>]_vars

C21_Witness ==
    /\ last.op = "pollErr"
    /\ last.preStatus = "connecting"
    /\ status = "connecting"
    /\ trace.stops = 0
    /\ trace.emits = <<>>

\* C22: at most one retry timeout is pending in every reachable state.
C22_AtMostOneRetryTimer == Cardinality(timeouts) <= 1

C22_Witness ==
    /\ Cardinality(timeouts) = 1
    /\ last.op = "huntDone"
    /\ ~last.fresh
    /\ Len(trace.scheduled) = 1
    /\ hunts >= 1

\* C23: a handler that runs while a retry timeout is pending arms none: a
\* retry scheduled while one is pending is a no-op.
C23_ScheduleWhilePendingIsNoOp ==
    [][timeouts # {} => trace'.scheduled = <<>>]_vars

\* C24: the retry counter goes up by one in exactly the steps in which a
\* connect() attempt fails (its hunt resolves with nothing or throws), and in
\* no step in which a retry timeout fires.
C24_CounterCountsFailures ==
    [][/\ last'.op = "huntDone" /\ last'.result.kind # "conn" => retryCount' = retryCount + 1
       /\ retryCount' > retryCount => (last'.op = "huntDone" /\ last'.result.kind # "conn")
       /\ last'.op = "retryFire" => retryCount' = retryCount]_vars

-----------------------------------------------------------------------------
(* C25 *)

\* What a restart of the schedule by the handler that just ran looks like: one
\* stop, one start, an interval created with the period now configured and one
\* request issued at once to the path now configured.
RestartedWithNewValues ==
    /\ trace.stops = 1
    /\ trace.starts = 1
    /\ isPolling
    /\ timer \in intervals
    /\ trace.intervalMs = <<pollingInterval>>
    /\ trace.requested = <<apiPath>>

\* C25: updating the polling interval or the API path while the poller is active
\* (and holds a connection) restarts the schedule: stop followed by start, a
\* fresh timer and an immediate poll with the new value, the held connection
\* being the same before and after; while the poller is inactive neither update
\* starts polling.
C25_UpdateRestartsSchedule ==
    [][last'.op \in {"setPollingInterval", "setApiPath"} =>
           /\ connection' = connection
           /\ (isPolling /\ connection # Null) => RestartedWithNewValues'
           /\ ~isPolling => /\ ~isPolling'
                            /\ timer' = timer
                            /\ intervals' = intervals
                            /\ trace'.requested = <<>>]_vars

-----------------------------------------------------------------------------
(* C26 *)

\* C26: when the manager concludes that the connection is lost (a poll error
\* handled while connected) or disconnect() is called, the connection held by
\* the poller is set to none.
C26_ConnectionInvalidated ==
    /\ last.op = "disconnect" => connection = Null
    /\ (last.op = "pollErr" /\ last.preStatus = "connected") => connection = Null

-----------------------------------------------------------------------------
(* C27 *)

\* The request of kind k has completed in the step, and nothing else changed
\* among the requests in flight.
Completed(k) ==
    /\ polls[k] > 0
    /\ polls' = [polls EXCEPT ![k] = @ - 1]

\* C27: every invocation of poll() emits exactly one 'update' event.  Without a
\* connection it is an error event, emitted at once without a request; with a
\* connection exactly one request is issued and the event comes when it
\* completes: an error event that leaves the last snapshot alone when the request
\* fails, a success event whose snapshot replaces the last snapshot otherwise.
C27_OneUpdatePerPoll ==
    [][/\ last'.op = "pollTick" =>
              IF connection = Null
                  THEN /\ trace'.updates = <<"error">>
                       /\ trace'.requested = <<>>
                       /\ PollCount(polls') = PollCount(polls)
                       /\ lastQuota' = lastQuota
                  ELSE /\ trace'.updates = <<>>
                       /\ Len(trace'.requested) = 1
                       /\ PollCount(polls') = PollCount(polls) + 1
                       /\ lastQuota' = lastQuota
       /\ last'.op = "pollErr" =>
              /\ trace'.updates = <<"error">>
              /\ trace'.requested = <<>>
              /\ lastQuota' = lastQuota
       /\ last'.op = "pollOk" =>
              /\ trace'.updates = <<"quota">>
              /\ trace'.requested = <<>>
              /\ \E k \in PollKinds : Completed(k) /\ lastQuota' = k.conn
       /\ last'.op \in {"start", "setPollingInterval"} =>
              /\ trace'.updates = <<>>
              /\ Len(trace'.requested) <= 1
              /\ PollCount(polls') = PollCount(polls) + Len(trace'.requested)
              /\ lastQuota' = lastQuota]_vars

\* A tick found the poller without a connection: one error event, no request.
C27_Witness ==
    /\ last.op = "pollTick"
    /\ connection = Null
    /\ trace.updates = <<"error">>
    /\ trace.requested = <<>>

-----------------------------------------------------------------------------
(* C28 *)

\* C28: within one extractConnection call the candidate ports are pooled
\* without duplicates, so no port is probed twice for the same process, also
\* when both port flags of the command line carry the same number.
C28_NoPortProbedTwice ==
    /\ \A k1, k2 \in 1..Len(huntCall.candidatePorts) :
           k1 # k2 => huntCall.candidatePorts[k1] # huntCall.candidatePorts[k2]
    /\ \A k1, k2 \in 1..Len(huntCall.probes) :
           (k1 # k2 /\ huntCall.probes[k1].pid = huntCall.probes[k2].pid) =>
               huntCall.probes[k1].port # huntCall.probes[k2].port

-----------------------------------------------------------------------------
(* C29 *)

\* scanProcesses() of the current hunt has returned.
ScanReturned == huntCall.pc \in {"lsof", "verify", "done"}

\* C29: on every platform, when the primary enumeration command fails, an
\* alternate enumeration method is tried before scanProcesses() returns, and
\* the scan never throws.
C29_FallbackOnEveryPlatform ==
    /\ ~huntCall.threw
    /\ (ScanReturned /\ ~huntCall.scans[1].ok) =>
           /\ Len(huntCall.scans) = 2
           /\ huntCall.scans[2].method # huntCall.scans[1].method

-----------------------------------------------------------------------------
(* C30 *)

\* The source QuotaPoller's own parseQuotaResponse reads the models from: the
\* chain of `if ... else if` over the response, in the order of the source.
pollerSource(d) ==
    IF flatModels(d).k = "list" THEN "flat"
    ELSE IF TruthyP(snakePlan(d)) THEN "legacy"
    ELSE IF TruthyP(camelPlan(d)) THEN "legacy"
    ELSE IF TruthyL(snakeConfigs(d)) THEN "nested"
    ELSE IF TruthyL(camelConfigs(d)) THEN "nested"
    ELSE "none"

IsFilledList(l) == l.k = "list" /\ l.items # <<>>

\* C30: the source is selected in the order flat list, nested list, legacy
\* credits.  A response with a filled flat list and a filled nested list is
\* built from the flat list, and the legacy credits are used only when no
\* filled list is found at any of the three locations - by parseQuotaResponse
\* of the parser module and by the poller's own parseQuotaResponse.
C30_FlatThenNestedThenLegacy ==
    parsed.done =>
        LET anyNested == IsFilledList(snakeConfigs(data)) \/ IsFilledList(camelConfigs(data))
            anyList   == anyNested \/ IsFilledList(flatModels(data))
        IN  /\ (flatModels(data) = List(<<Named("in-flat", 50)>>) /\ anyNested) =>
                   /\ parsed.models[1].modelId = "in-flat"
                   /\ pollerSource(data) = "flat"
            /\ parsed.models[1].modelId = "credits" => ~anyList
            /\ pollerSource(data) = "legacy" => ~anyList

-----------------------------------------------------------------------------
(* C31 *)

\* The entry carries an identifier at one of the four places it is read from.
HasIdentifier(m) ==
    m.k = "obj" /\ (TruthyS(m.model_id) \/ TruthyS(m.modelId) \/ TruthyS(m.id)
                    \/ TruthyS(m.alias))
IsEntry(m) == m.k # "null"
AllEntries(l) == l.k = "list" /\ \A i \in 1..Len(l.items) : IsEntry(l.items[i])

-----------------------------------------------------------------------------
(* C32 *)

\* Normalizing the list throws: reading a property of a null member does.
Throws(l) == l.k = "list" /\ \E i \in 1..Len(l.items) : l.items[i].k = "null"

\* C32: whenever an exception is raised while the response is normalized,
\* parseQuotaResponse returns the single placeholder model, also when some
\* entries had been normalized before the exception.
C32_ExceptionYieldsPlaceholder ==
    (parsed.done /\ Throws(rawModels(data))) =>
        /\ ~parsed.threw
        /\ Len(parsed.models) = 1
        /\ IsPlaceholder(parsed.models[1])

-----------------------------------------------------------------------------
(* C33 *)

\* The manager and its poller when disconnect() is never called from outside,
\* and every armed timeout, pending hunt and request in flight eventually
\* completes; the interval of an active poller keeps ticking.
ReacquireNext ==
    \/ Connect
    \/ Refresh
    \/ RetryFire
    \/ HuntDone
    \/ PollDone
    \/ PollTick

SpecReacquire ==
    /\ Init
    /\ [][ReacquireNext]_vars
    /\ WF_vars(RetryFire)
    /\ WF_vars(HuntDone)
    /\ WF_vars(PollDone)
    /\ WF_vars(PollTick)

\* C33: after a poll error received while connected a new hunt() is eventually
\* started, also when other poll results of the old session arrive during the
\* backoff window.
C33_PollErrorLeadsToHunt ==
    (last.op = "pollErr" /\ last.preStatus = "connected") ~> (trace.huntCalls > 0)

-----------------------------------------------------------------------------
(* C34 *)

\* C34: after a poller 'update' event or a 'statusChange' event has been
\* delivered to all of its listeners, the status bar shows the manager's
\* status; after a poll error while connected both show 'disconnected'.
C34_StatusBarShowsManagerStatus ==
    /\ (trace.updates # <<>> \/ trace.emits # <<>>) => barStatus = status
    /\ (last.op = "pollErr" /\ last.preStatus = "connected") =>
           (status = "disconnected" /\ barStatus = "disconnected")

-----------------------------------------------------------------------------
(* C35 *)

\* C35: between event handlers, a manager whose status is 'connected' has an
\* active poller: the active flag is set, its recurring timer is live and a
\* connection is held.
C35_ConnectedImpliesPolling ==
    status = "connected" =>
        /\ isPolling
        /\ timer # Null
        /\ timer \in intervals
        /\ connection # Null

-----------------------------------------------------------------------------
(* C36 *)

\* C36: when disconnect() was called while a hunt started by connect() was in
\* flight and that hunt resolves next, with or without a connection, the status
\* is 'disconnected', the poller is inactive and no retry timer is pending.
C36_DisconnectDuringHunt ==
    [][(last.op = "disconnect" /\ hunts = 1 /\ last'.op = "huntDone") =>
           /\ status' = "disconnected"
           /\ ~isPolling'
           /\ intervals' = {}
           /\ timeouts' = {}
           /\ retryTimer' = Null]_vars

-----------------------------------------------------------------------------
(* C37 *)

\* C37: once the refresh() of the extension has led to a connection (status
\* 'connected', poller active, no stop() since the refresh), a poll error of a
\* request issued before that refresh() does not stop the poller, change the
\* status or schedule a retry.
C37_StaleErrorAfterRefresh ==
    [][(/\ refreshed
        /\ status = "connected"
        /\ isPolling
        /\ last'.op = "pollErr"
        /\ last'.fresh) =>
           /\ status' = status
           /\ isPolling' = isPolling
           /\ timer' = timer
           /\ trace'.stops = 0
           /\ trace'.emits = <<>>
           /\ trace'.scheduled = <<>>
           /\ timeouts' = timeouts]_vars

-----------------------------------------------------------------------------
(* C38 *)

\* C38: after every operation of the poller, in any sequence of setConnection,
\* start, stop, setPollingInterval and setApiPath (and of ticks and completing
\* requests between them), isActive() - the isPolling flag - is true exactly
\* when a recurring timer exists, at most one recurring timer exists, and
\* setConnection changes neither the flag nor the timer.
C38_ActiveIffTimer ==
    [][/\ isPolling' <=> (timer' # Null /\ intervals' # {})
       /\ Cardinality(intervals') <= 1
       /\ intervals' \subseteq {timer'}
       /\ last'.op = "setConnection" =>
              /\ isPolling' = isPolling
              /\ timer' = timer
              /\ intervals' = intervals]_vars

\* The connection of an active poller was cleared, and the poller is still
\* active on its timer.
C38_Witness ==
    /\ last.op = "setConnection"
    /\ connection = Null
    /\ isPolling
    /\ timer \in intervals

-----------------------------------------------------------------------------
(* C39 *)

\* The three recognised list locations of the response.
Locations(d) == {snakeConfigs(d), camelConfigs(d), flatModels(d)}

\* The identifiers an entry may be known by.
IdentifiersOf(m) == {m.model_id, m.modelId, m.id, m.alias} \ {StrUndef, ""}

\* C39: when a recognised list location holds at least one entry with an
\* identifier (each location being absent or a list without null members), the
\* result has a model for such an entry and holds neither the 'unknown'
\* placeholder nor the legacy 'credits' model, also when another location is
\* an empty list or a list of entries without an identifier.
C39_IdentifiedEntryIsParsed ==
    (/\ parsed.done
     /\ \E l \in Locations(data) :
            l.k = "list" /\ \E i \in 1..Len(l.items) : HasIdentifier(l.items[i])
     /\ \A l \in Locations(data) : l.k \in {"undef", "list"} /\ ~Throws(l)) =>
        /\ \E j \in 1..Len(parsed.models), l \in Locations(data) :
               /\ l.k = "list"
               /\ \E i \in 1..Len(l.items) :
                      /\ HasIdentifier(l.items[i])
                      /\ parsed.models[j].modelId \in IdentifiersOf(l.items[i])
        /\ \A j \in 1..Len(parsed.models) :
               parsed.models[j].modelId \notin {"unknown", "credits"}
====
